---------------------------- MODULE Spec2Model ----------------------------
(***************************************************************************)
(* A state-machine model of src/src/nautilus-list-view.c: the list view of *)
(* the file manager.  The model covers the reconciliation of the attached  *)
(* columns with the stored settings, the composite sorter and the header   *)
(* click heuristic, the sort action and the zoom action.                   *)
(***************************************************************************)
EXTENDS Integers, Sequences, FiniteSets, TLC

VARIABLES
    directory,      \* the directory shown: what the file predicates answer for it
    attached,       \* the columns of the column view, in view order
    metaVisible,    \* per-directory metadata: visible columns (<<>> when unset)
    metaOrder,      \* per-directory metadata: column order (<<>> when unset)
    prefVisible,    \* global preference: default visible columns
    prefOrder,      \* global preference: default column order
    chooser,        \* the column chooser's current settings
    applied,        \* history: the arguments of the last apply_columns_settings
    n_items,        \* the number of items of the view model
    rows,           \* the items of the view model in sorted order
    directories_first,
    sorters,        \* the column view sorter: its sort columns, primary first
    sortState,      \* the state of the "sort" action
    sortMeta,       \* per-directory metadata: sort attribute and reversed flag
    column_header_was_clicked,
    clicked_column_attribute_q,     \* "" stands for the quark 0
    calls,          \* history: the attributes nautilus_list_view_sort was called
                    \* with while the last handler ran, in call order
    request,        \* history: the value action_sort_order_changed handled in the
                    \* last handler, and whether it differed from the action's state
    changes,        \* history: for every "changed" of the sorter that
                    \* on_sorter_changed handled in the last handler, the size of
                    \* the model, the number of sort columns, the comparator
                    \* calls made, and the quark on_after_sorter_changed found
    zoom_level,
    zoomState,      \* the state of the "zoom-to-level" action
    prefZoom,       \* global preference: default zoom level
    zoomPrefWrites, \* history: how often the zoom preference was written
    lastOp          \* history: the handler that ran last

columnVars == <<directory, attached, metaVisible, metaOrder, prefVisible, prefOrder,
                chooser, applied>>

sortVars == <<n_items, rows, directories_first, sorters, sortState, sortMeta,
              column_header_was_clicked, clicked_column_attribute_q, calls, request,
              changes>>

zoomVars == <<zoom_level, zoomState, prefZoom, zoomPrefWrites>>

vars == <<columnVars, sortVars, zoomVars, lastOp>>

-----------------------------------------------------------------------------
(* Bounds of the model.                                                    *)

\* longest column list the column chooser hands over
MaxListLen == 2
\* longest column list a global preference holds
MaxPrefLen == 1
\* most files the view model holds
MaxItems == 3
\* most writes of the zoom preference that are counted
MaxZoomPrefWrites == 5

-----------------------------------------------------------------------------
(* Helpers on sequences.                                                   *)

Range(s) == {s[i] : i \in 1..Len(s)}

RemoveAt(s, i) == [j \in 1..(Len(s) - 1) |-> IF j < i THEN s[j] ELSE s[j + 1]]

InsertAt(s, i, x) ==
    [j \in 1..(Len(s) + 1) |-> IF j < i THEN s[j] ELSE IF j = i THEN x ELSE s[j - 1]]

\* index of the first occurrence of x in s, 0 when absent
IndexOf(s, x) ==
    IF x \in Range(s) THEN CHOOSE i \in 1..Len(s) : s[i] = x /\ \A j \in 1..(i - 1) : s[j] # x
    ELSE 0

\* the sequences without repetition over S of length at most n
RECURSIVE ListsUpTo(_, _)
ListsUpTo(S, n) ==
    IF n = 0 THEN {<<>>}
    ELSE LET shorter == ListsUpTo(S, n - 1)
         IN  shorter \cup {Append(l, x) : l \in shorter, x \in S}

NoRepeat(l) == \A i, j \in 1..Len(l) : i # j => l[i] # l[j]

-----------------------------------------------------------------------------
(* The column registry and the names a settings list may hold.             *)

\* every column the view builds a GtkColumnViewColumn for
AllColumns == <<"name", "size", "starred", "trashed_on", "recency">>

\* the keys of all_view_columns_hash
AllViewColumns == Range(AllColumns)

\* the names the column chooser hands over; "Starred" spells a column name
\* in another letter case
ColumnTokens == {"name", "size", "Starred"}

\* the names a global preference list holds
PrefTokens == {"size", "starred"}

\* g_ascii_strdown on the names of the model
AsciiStrdown(s) == IF s = "Starred" THEN "starred" ELSE s

default_columns_for_recent == <<"name", "size", "recency">>

default_columns_for_trash == <<"name", "size", "trashed_on">>


-----------------------------------------------------------------------------
(* The directory shown and what lives outside this file.                   *)

\* what nautilus_file_is_in_trash, nautilus_file_is_in_recent,
\* nautilus_tag_manager_can_star_contents and nautilus_is_starred_directory
\* answer for the directory of the view
DirectoryFlags ==
    [in_trash : BOOLEAN, in_recent : BOOLEAN, can_star : BOOLEAN, is_starred_dir : BOOLEAN]

\* the directories a view is opened on: a folder whose files can be starred,
\* a folder whose files cannot, the trash, the recent files, the starred files
Directories ==
    {d \in DirectoryFlags :
        Cardinality({f \in {"in_trash", "in_recent", "can_star", "is_starred_dir"} : d[f]}) <= 1}

\* nautilus_get_columns_for_file: the common columns, and the trash columns
\* for a file in the trash
nautilus_get_columns_for_file(dir) ==
    <<"name", "size", "starred", "recency">>
        \o (IF dir.in_trash THEN <<"trashed_on">> ELSE <<>>)

\* the registry's columns in the strcmp order of their labels
\* ("Name", "Recency", "Size", "Star", "Trashed On")
ColumnsByLabel == <<"name", "recency", "size", "starred", "trashed_on">>

\* nautilus_sort_columns: the columns named in column_order first, in the
\* order of column_order (exact match of the name), then the others by label
nautilus_sort_columns(columns, column_order) ==
    LET listed(i) == /\ column_order[i] \in Range(columns)
                     /\ \A j \in 1..(i - 1) : column_order[j] # column_order[i]
        idx == SelectSeq([i \in 1..Len(column_order) |-> i], listed)
        rest(c) == c \in Range(columns) /\ c \notin Range(column_order)
    IN  [k \in 1..Len(idx) |-> column_order[idx[k]]] \o SelectSeq(ColumnsByLabel, rest)

-----------------------------------------------------------------------------
(* apply_columns_settings.                                                 *)

\* visible_columns_hash without the entry for the name column
visible_columns_hash_without_name(dir, visible_columns) ==
    (IF dir.can_star \/ dir.is_starred_dir THEN {"starred"} ELSE {})
        \cup {AsciiStrdown(visible_columns[i]) : i \in 1..Len(visible_columns)}

\* the keys of visible_columns_hash
visible_columns_hash(dir, visible_columns) ==
    {"name"}
        \cup (IF dir.can_star \/ dir.is_starred_dir THEN {"starred"} ELSE {})
        \cup {AsciiStrdown(visible_columns[i]) : i \in 1..Len(visible_columns)}

\* view_columns as the prepending loop leaves it, never reversed
view_columns_unreversed(dir, column_order, visible_columns) ==
    LET all_columns == nautilus_sort_columns(nautilus_get_columns_for_file(dir), column_order)
        hash == visible_columns_hash(dir, visible_columns)
        wanted(name) == AsciiStrdown(name) \in hash /\ name \in AllViewColumns
        kept == SelectSeq(all_columns, wanted)
    IN  [k \in 1..Len(kept) |-> kept[Len(kept) + 1 - k]]

\* the list view_columns after g_list_reverse: the columns of the file, in
\* sorted order, that are to be visible and have a view column
view_columns(dir, column_order, visible_columns) ==
    LET all_columns == nautilus_sort_columns(nautilus_get_columns_for_file(dir), column_order)
        hash == visible_columns_hash(dir, visible_columns)
        wanted(name) == AsciiStrdown(name) \in hash /\ name \in AllViewColumns
    IN  SelectSeq(all_columns, wanted)

\* gtk_column_view_remove_column
gtk_column_view_remove_column(cols, column) ==
    IF column \in Range(cols) THEN RemoveAt(cols, IndexOf(cols, column)) ELSE cols

\* gtk_column_view_insert_column: a column already in the view is moved; a
\* position past the end is refused
gtk_column_view_insert_column(cols, position, column) ==
    IF position > Len(cols) THEN cols
    ELSE InsertAt(gtk_column_view_remove_column(cols, column), position + 1, column)

\* the loop that hides the columns not in the configuration: i walks the live
\* list of the view's columns (i counts from 0)
RECURSIVE HideColumns(_, _, _)
HideColumns(cols, i, targets) ==
    IF i >= Len(cols) THEN cols
    ELSE IF cols[i + 1] \notin Range(targets)
         THEN HideColumns(gtk_column_view_remove_column(cols, cols[i + 1]), i + 1, targets)
         ELSE HideColumns(cols, i + 1, targets)

\* the loop that places the columns in the correct order (column_i counts
\* from 0)
RECURSIVE PlaceColumns(_, _, _)
PlaceColumns(cols, column_i, targets) ==
    IF column_i >= Len(targets) THEN cols
    ELSE PlaceColumns(gtk_column_view_insert_column(cols, column_i, targets[column_i + 1]),
                      column_i + 1, targets)

\* the view's columns after apply_columns_settings
apply_columns_settings(cols, dir, column_order, visible_columns) ==
    LET targets == view_columns(dir, column_order, visible_columns)
    IN  PlaceColumns(HideColumns(cols, 0, targets), 0, targets)

-----------------------------------------------------------------------------
(* The stored settings.                                                    *)

get_default_visible_columns(dir, pref) ==
    IF dir.in_trash THEN default_columns_for_trash
    ELSE IF dir.in_recent THEN default_columns_for_recent
    ELSE pref

\* get_visible_columns that never reads the metadata
get_visible_columns_ignoring_metadata(dir, meta, pref) ==
    get_default_visible_columns(dir, pref)

get_visible_columns(dir, meta, pref) ==
    IF Len(meta) = 0 THEN get_default_visible_columns(dir, pref) ELSE meta

get_default_column_order(dir, pref) ==
    IF dir.in_trash THEN default_columns_for_trash
    ELSE IF dir.in_recent THEN default_columns_for_recent
    ELSE pref

get_column_order(dir, meta, pref) ==
    IF Len(meta) # 0 THEN meta ELSE get_default_column_order(dir, pref)

-----------------------------------------------------------------------------
(* The settings the handlers of the column settings receive.              *)

\* the settings a column chooser can hold: an order of at least one column and
\* the columns of that order that are ticked
Subsequences(l) ==
    {SelectSeq(l, LAMBDA x : x \in S) : S \in SUBSET Range(l)}

ChooserSettings ==
    UNION {{[order |-> o, visible |-> v] : v \in Subsequences(o)} :
        o \in {l \in ListsUpTo(ColumnTokens, MaxListLen) : NoRepeat(l) /\ l # <<>>}}

PrefLists == {l \in ListsUpTo(PrefTokens, MaxPrefLen) : NoRepeat(l)}

-----------------------------------------------------------------------------
(* The files of the view model and the comparators.                        *)

\* the files of the model are 1..n_items, in the order they were added
IsDirectory(f) == f % 2 = 0

\* the value of a file's attribute, as an integer that orders it
AttributeValue(f, attribute) ==
    CASE attribute = "name" -> f
      [] attribute = "size" -> f % 2
      [] OTHER -> 0

GTK_ORDERING_SMALLER == -1

GTK_ORDERING_EQUAL == 0

GTK_ORDERING_LARGER == 1

CompareInt(x, y) ==
    IF x < y THEN GTK_ORDERING_SMALLER
    ELSE IF x > y THEN GTK_ORDERING_LARGER
    ELSE GTK_ORDERING_EQUAL

\* nautilus_file_compare_for_sort_by_attribute_q: directories first when asked
\* (never reversed), then the attribute, then the name; the same file
\* compares equal
nautilus_file_compare_for_sort_by_attribute_q(a, b, attribute, dirs_first, reversed) ==
    IF dirs_first /\ IsDirectory(a) /\ ~IsDirectory(b) THEN GTK_ORDERING_SMALLER
    ELSE IF dirs_first /\ IsDirectory(b) /\ ~IsDirectory(a) THEN GTK_ORDERING_LARGER
    ELSE LET by_attribute == CompareInt(AttributeValue(a, attribute), AttributeValue(b, attribute))
             result == IF by_attribute # GTK_ORDERING_EQUAL THEN by_attribute
                       ELSE CompareInt(AttributeValue(a, "name"), AttributeValue(b, "name"))
         IN  IF reversed THEN -result ELSE result

\* nautilus_list_view_sort with the reversed argument taken from the sorter
nautilus_list_view_sort_reversing(a, b, attribute_q, inverted) ==
    nautilus_file_compare_for_sort_by_attribute_q(a, b, attribute_q, FALSE, inverted)

\* the value nautilus_list_view_sort returns for a column the column view
\* sorter holds as inverted or not
nautilus_list_view_sort(a, b, attribute_q, inverted) ==
    nautilus_file_compare_for_sort_by_attribute_q(a, b, attribute_q, FALSE, FALSE)

\* the hack at the head of nautilus_list_view_sort: the new value of
\* clicked_column_attribute_q
capture_last_attribute(was_clicked, clicked_q, attribute_q) ==
    IF was_clicked THEN attribute_q ELSE clicked_q

capture_clicked_attribute(was_clicked, clicked_q, attribute_q) ==
    IF clicked_q = "" /\ was_clicked THEN attribute_q ELSE clicked_q

\* sort_directories_func ignoring the flag
sort_directories_func_never(a, b, dirs_first) == GTK_ORDERING_EQUAL

sort_directories_func(a, b, dirs_first) ==
    IF dirs_first /\ IsDirectory(a) /\ ~IsDirectory(b) THEN GTK_ORDERING_SMALLER
    ELSE IF dirs_first /\ IsDirectory(b) /\ ~IsDirectory(a) THEN GTK_ORDERING_LARGER
    ELSE GTK_ORDERING_EQUAL

\* the column view sorter: the first sort column that tells the items apart
\* decides, inverted when the column is sorted descending
RECURSIVE ColumnViewSorterCompare(_, _, _)
ColumnViewSorterCompare(a, b, srt) ==
    IF srt = <<>> THEN GTK_ORDERING_EQUAL
    ELSE LET result == nautilus_list_view_sort(a, b, Head(srt).column, Head(srt).inverted)
         IN  IF result # GTK_ORDERING_EQUAL
             THEN (IF Head(srt).inverted THEN -result ELSE result)
             ELSE ColumnViewSorterCompare(a, b, Tail(srt))

\* the attributes nautilus_list_view_sort is called with in one comparison by
\* the column view sorter
RECURSIVE ColumnViewSorterCalls(_, _, _)
ColumnViewSorterCalls(a, b, srt) ==
    IF srt = <<>> THEN <<>>
    ELSE IF nautilus_list_view_sort(a, b, Head(srt).column, Head(srt).inverted)
                # GTK_ORDERING_EQUAL
         THEN <<Head(srt).column>>
         ELSE <<Head(srt).column>> \o ColumnViewSorterCalls(a, b, Tail(srt))

\* the multi sorter of nautilus_list_view_init: the directories sorter, then
\* the column view sorter
MultiSorterCompare(a, b, dirs_first, srt) ==
    IF sort_directories_func(a, b, dirs_first) # GTK_ORDERING_EQUAL
    THEN sort_directories_func(a, b, dirs_first)
    ELSE ColumnViewSorterCompare(a, b, srt)

MultiSorterCalls(a, b, dirs_first, srt) ==
    IF sort_directories_func(a, b, dirs_first) # GTK_ORDERING_EQUAL
    THEN <<>>
    ELSE ColumnViewSorterCalls(a, b, srt)

\* the sort list model: the files 1..n in the stable order of the multi sorter
RECURSIVE SortedRows(_, _, _)
SortedRows(n, dirs_first, srt) ==
    IF n = 0 THEN <<>>
    ELSE LET before == SortedRows(n - 1, dirs_first, srt)
             pos == Cardinality({i \in 1..Len(before) :
                        MultiSorterCompare(before[i], n, dirs_first, srt)
                            # GTK_ORDERING_LARGER})
         IN  InsertAt(before, pos + 1, n)

\* the pairs of items in the order of a pass over the model, and the orders a
\* re-sort may compare them in: every pair, starting with any of them
RECURSIVE PairsUpTo(_)
PairsUpTo(n) ==
    IF n < 2 THEN <<>>
    ELSE PairsUpTo(n - 1) \o [i \in 1..(n - 1) |-> <<i, n>>]

ComparisonOrders(n) ==
    LET pairs == PairsUpTo(n)
    IN  IF pairs = <<>> THEN {<<>>}
        ELSE {SubSeq(pairs, k, Len(pairs)) \o SubSeq(pairs, 1, k - 1) : k \in 1..Len(pairs)}

\* the attributes nautilus_list_view_sort is called with during a re-sort
RECURSIVE ResortCalls(_, _, _)
ResortCalls(comparisons, dirs_first, srt) ==
    IF comparisons = <<>> THEN <<>>
    ELSE MultiSorterCalls(Head(comparisons)[1], Head(comparisons)[2], dirs_first, srt)
            \o ResortCalls(Tail(comparisons), dirs_first, srt)

\* clicked_column_attribute_q after a sequence of nautilus_list_view_sort calls
RECURSIVE CaptureAll(_, _, _)
CaptureAll(was_clicked, clicked_q, attributes) ==
    IF attributes = <<>> THEN clicked_q
    ELSE CaptureAll(was_clicked,
                    capture_clicked_attribute(was_clicked, clicked_q, Head(attributes)),
                    Tail(attributes))

-----------------------------------------------------------------------------
(* The column view sorter, the "changed" handlers and the sort action.     *)

\* a click on a column header: the primary sort column is inverted, another
\* column becomes the primary sort column, ascending
gtk_column_view_sorter_add_column(srt, column) ==
    IF srt # <<>> /\ Head(srt).column = column
    THEN <<[column |-> column, inverted |-> ~Head(srt).inverted]>> \o Tail(srt)
    ELSE <<[column |-> column, inverted |-> FALSE]>>
            \o SelectSeq(srt, LAMBDA x : x.column # column)

\* gtk_column_view_sort_by_column; "" stands for the column NULL
gtk_column_view_sort_by_column(srt, column, reversed) ==
    IF column = "" THEN <<>> ELSE <<[column |-> column, inverted |-> reversed]>>

\* get_sorts_type_from_metadata_text and the attributes array: the attribute
\* a sort target stands for; a text that names no sort type sorts by name
SortAttributes == {"name", "size", "starred", "trashed_on", "recency"}

SortAttribute(target_name) ==
    IF target_name \in SortAttributes THEN target_name ELSE "name"

\* the loop of action_sort_order_changed over the view's columns: the first
\* attached column with the target's attribute, "" when there is none
FindSortColumn(cols, target_name) ==
    IF SortAttribute(target_name) \in Range(cols) THEN SortAttribute(target_name) ELSE ""

\* on_sorter_changed without the comparison against a dummy item
SorterChanged_without_dummy(h, blocked, n, dirs_first, srt, comparisons) ==
    LET clicked == IF blocked THEN h.clicked ELSE TRUE
        q0 == IF blocked THEN h.q ELSE ""
        made == ResortCalls(comparisons, dirs_first, srt)
    IN  [clicked |-> clicked, q |-> CaptureAll(clicked, q0, made), calls |-> made]

\* the sorter emits "changed" with n items in the model: on_sorter_changed
\* (unless blocked) and the re-sort of the sort list model.  h holds
\* column_header_was_clicked and clicked_column_attribute_q.
SorterChanged(h, blocked, n, dirs_first, srt, comparisons) ==
    LET clicked == IF blocked THEN h.clicked ELSE TRUE
        q0 == IF blocked THEN h.q ELSE ""
        dummy == IF ~blocked /\ n = 1 THEN MultiSorterCalls(1, 1, dirs_first, srt) ELSE <<>>
        made == dummy \o ResortCalls(comparisons, dirs_first, srt)
    IN  [clicked |-> clicked, q |-> CaptureAll(clicked, q0, made), calls |-> made]

\* on_after_sorter_changed that never inverts the direction
on_after_sorter_changed_never_reversing(clicked, q, state) ==
    IF ~clicked \/ q = "" THEN [requested |-> FALSE, value |-> state]
    ELSE [requested |-> TRUE, value |-> [name |-> q, reversed |-> FALSE]]

\* on_after_sorter_changed: the state it asks the sort action to take
on_after_sorter_changed(clicked, q, state) ==
    IF ~clicked \/ q = "" THEN [requested |-> FALSE, value |-> state]
    ELSE [requested |-> TRUE,
          value |-> [name |-> q,
                     reversed |-> IF q = state.name THEN ~state.reversed ELSE FALSE]]

\* set_directory_sort_metadata: the metadata holds the target and the flag
set_directory_sort_metadata(target_name, reversed) ==
    [name |-> target_name, reversed |-> reversed]

\* a sort action that handles a value equal to its state like any other
same_state_never(value, state) == FALSE

\* the g_variant_equal test of action_sort_order_changed
same_state(value, state) == value = state

\* a sort action that asks the column view to sort whatever the flag says
sort_by_column_wanted_always(was_clicked) == TRUE

\* the test that guards the programmatic sort
sort_by_column_wanted(was_clicked) == ~was_clicked

\* a programmatic sort that leaves on_sorter_changed connected
on_sorter_changed_unblocked(programmatic) == FALSE

\* g_signal_handlers_block_by_func and g_signal_handlers_unblock_by_func
\* around the programmatic sort: on_sorter_changed does not run in between
on_sorter_changed_blocked(programmatic) == programmatic

\* the end of action_sort_order_changed: the flag is reset, the metadata is
\* written, the action takes the value
FinishSortAction(S, value) ==
    [S EXCEPT !.clicked = FALSE,
              !.meta = set_directory_sort_metadata(value.name, value.reversed),
              !.meta_written = TRUE,
              !.state = value]

\* on_after_sorter_changed after a "changed" that a programmatic sort
\* emitted: a state it requests is handled by a nested
\* action_sort_order_changed, which finds the flag set and the action's state
\* not yet changed
NestedSortAction(S, after) ==
    IF after.requested /\ ~same_state(after.value, S.state)
    THEN [FinishSortAction(S, after.value) EXCEPT !.nested = TRUE]
    ELSE S

\* the history of one gtk_column_view_sort_by_column call, which made srt the
\* sort columns
LogSortByColumn(S, srt, column, reversed) ==
    [S EXCEPT !.sorters = srt,
              !.sort_by_column = Append(S.sort_by_column,
                                        [column |-> column, reversed |-> reversed])]

\* the "changed" that a programmatic sort emitted was handled with the
\* outcome h of on_sorter_changed (if not blocked) and the re-sort; then
\* on_after_sorter_changed runs
HandleProgrammaticChange(S, h, n) ==
    NestedSortAction(
        [S EXCEPT !.clicked = h.clicked, !.q = h.q,
                  !.calls = S.calls \o h.calls,
                  !.clicked_in_sort = S.clicked_in_sort \/ h.clicked,
                  !.changes = IF on_sorter_changed_blocked(TRUE) THEN S.changes
                              ELSE Append(S.changes,
                                          [n |-> n, sort_columns |-> Len(S.sorters),
                                           q |-> h.q, calls |-> h.calls])],
        on_after_sorter_changed(h.clicked, h.q, S.state))

\* one gtk_column_view_sort_by_column of the programmatic sort: the sort
\* columns change, and when that emits "changed" the model is sorted again and
\* on_after_sorter_changed runs
ProgrammaticSort(S, column, reversed, n, dirs_first, comparisons) ==
    IF gtk_column_view_sort_by_column(S.sorters, column, reversed) # S.sorters
           \/ column # ""
    THEN HandleProgrammaticChange(
             LogSortByColumn(S, gtk_column_view_sort_by_column(S.sorters, column, reversed),
                             column, reversed),
             SorterChanged([clicked |-> S.clicked, q |-> S.q],
                           on_sorter_changed_blocked(TRUE), n, dirs_first,
                           gtk_column_view_sort_by_column(S.sorters, column, reversed),
                           comparisons),
             n)
    ELSE LogSortByColumn(S, gtk_column_view_sort_by_column(S.sorters, column, reversed),
                         column, reversed)

\* action_sort_order_changed that sets the action's state and never writes
\* the metadata
action_sort_order_changed_no_metadata(S, value, cols, n, dirs_first, comparisons) ==
    IF value = S.state THEN S
    ELSE IF value.name = "unknown" THEN [S EXCEPT !.state = value]
    ELSE LET by_column == gtk_column_view_sort_by_column(S.sorters,
                              FindSortColumn(cols, value.name), value.reversed)
             sorted == IF ~S.clicked THEN [S EXCEPT !.sorters = by_column] ELSE S
         IN  [sorted EXCEPT !.clicked = FALSE, !.state = value]

\* action_sort_order_changed.  S holds the sort action's state, the sort
\* metadata, the two fields of the hack, the column view sorter, the
\* attributes the comparator was called with and the history of the handler.
action_sort_order_changed(S, value, cols, n, dirs_first, comparisons) ==
    IF same_state(value, S.state) THEN S
    ELSE IF value.name = "unknown" THEN [S EXCEPT !.state = value]
    ELSE LET sort_column == FindSortColumn(cols, value.name)
             cleared == ProgrammaticSort(S, "", FALSE, n, dirs_first, comparisons)
             sorted == IF sort_by_column_wanted(S.clicked)
                       THEN ProgrammaticSort(cleared, sort_column, value.reversed, n,
                                             dirs_first, comparisons)
                       ELSE S
         IN  FinishSortAction(sorted, value)

\* history of a handler in which the sort action handled value: whether the
\* value differed from the action's state, the flag the action found, and what
\* the action did
SortRequest(value, state, was_clicked, S) ==
    [called |-> TRUE, value |-> value, differs |-> value # state,
     was_clicked |-> was_clicked, sort_by_column |-> S.sort_by_column,
     clicked_in_sort |-> S.clicked_in_sort, nested |-> S.nested,
     meta_written |-> S.meta_written]

NoRequest == [called |-> FALSE, value |-> [name |-> "", reversed |-> FALSE],
              differs |-> FALSE, was_clicked |-> FALSE, sort_by_column |-> <<>>,
              clicked_in_sort |-> FALSE, nested |-> FALSE, meta_written |-> FALSE]

\* the sort fields of the state, as the record the handlers work on, with an
\* empty history
SortFields ==
    [state |-> sortState, meta |-> sortMeta, clicked |-> column_header_was_clicked,
     q |-> clicked_column_attribute_q, sorters |-> sorters, calls |-> <<>>,
     sort_by_column |-> <<>>, clicked_in_sort |-> FALSE, nested |-> FALSE,
     meta_written |-> FALSE, changes |-> <<>>, request |-> NoRequest]

SetSortFields(S, dirs_first) ==
    /\ sortState' = S.state
    /\ sortMeta' = S.meta
    /\ column_header_was_clicked' = S.clicked
    /\ clicked_column_attribute_q' = S.q
    /\ sorters' = S.sorters
    /\ calls' = S.calls
    /\ changes' = S.changes
    /\ directories_first' = dirs_first
    /\ rows' = SortedRows(n_items, dirs_first, S.sorters)

\* the values the sort menu asks for
SortValues == [name : {"name", "size", "unknown"}, reversed : BOOLEAN]

\* the "sort" action's state is changed from the menu
SortAction ==
    \E value \in SortValues, comparisons \in ComparisonOrders(n_items) :
        LET S == action_sort_order_changed(SortFields, value, attached, n_items,
                                           directories_first, comparisons)
        IN  /\ SetSortFields(S, directories_first)
            /\ request' = SortRequest(value, sortState, column_header_was_clicked, S)
            /\ lastOp' = "sort_action"
            /\ UNCHANGED <<columnVars, zoomVars, n_items>>

\* the sort action handled the value on_after_sorter_changed requested
WithRequest(R, value, S) ==
    [R EXCEPT !.request = SortRequest(value, S.state, S.clicked, R)]

\* on_after_sorter_changed has decided what to request after a "changed" of
\* the column view: the sort action handles it
RequestedSortAction(S, after, cols, n, dirs_first, comparisons) ==
    IF after.requested
    THEN WithRequest(action_sort_order_changed(S, after.value, cols, n, dirs_first,
                                               comparisons),
                     after.value, S)
    ELSE S

\* a "changed" of the column view was handled with the outcome h of
\* on_sorter_changed and the re-sort; then on_after_sorter_changed runs
HandleViewChange(S, h, srt, cols, n, dirs_first, comparisons) ==
    RequestedSortAction(
        [S EXCEPT !.clicked = h.clicked, !.q = h.q, !.sorters = srt,
                  !.calls = S.calls \o h.calls,
                  !.changes = Append(S.changes,
                                     [n |-> n, sort_columns |-> Len(srt),
                                      q |-> h.q, calls |-> h.calls])],
        on_after_sorter_changed(h.clicked, h.q, S.state),
        cols, n, dirs_first, comparisons)

\* the column view sorter changed to the sort columns srt and the multi
\* sorter emits "changed": on_sorter_changed runs, the model is sorted again,
\* on_after_sorter_changed runs and the sort action handles what it requests
SorterChangedByView(S, srt, cols, n, dirs_first, comparisons) ==
    HandleViewChange(S,
                     SorterChanged([clicked |-> S.clicked, q |-> S.q], FALSE, n,
                                   dirs_first, srt, comparisons),
                     srt, cols, n, dirs_first, comparisons)

\* the user clicks the header of an attached column: the column view sorter
\* changes
HeaderClick ==
    \E column \in Range(attached), comparisons \in ComparisonOrders(n_items) :
        LET R == SorterChangedByView(SortFields,
                                     gtk_column_view_sorter_add_column(sorters, column),
                                     attached, n_items, directories_first, comparisons)
        IN  /\ SetSortFields(R, directories_first)
            /\ request' = R.request
            /\ lastOp' = "header_click"
            /\ UNCHANGED <<columnVars, zoomVars, n_items>>

\* real_sort_directories_first_changed: the flag is read again and the sorter
\* is set again, which sorts the model again without a "changed" signal
SortDirectoriesFirstChanged ==
    \E dirs_first \in BOOLEAN, comparisons \in ComparisonOrders(n_items) :
        LET made == ResortCalls(comparisons, dirs_first, sorters)
        IN  /\ SetSortFields([SortFields EXCEPT
                                 !.q = CaptureAll(column_header_was_clicked,
                                                  clicked_column_attribute_q, made),
                                 !.calls = made],
                             dirs_first)
            /\ request' = NoRequest
            /\ lastOp' = "directories_first_changed"
            /\ UNCHANGED <<columnVars, zoomVars, n_items>>

\* a file is added to the view model, which compares it with the items there
FileAdded ==
    /\ n_items < MaxItems
    /\ n_items' = n_items + 1
    /\ LET made == ResortCalls([i \in 1..n_items |-> <<i, n_items + 1>>],
                               directories_first, sorters)
       IN  /\ calls' = made
           /\ clicked_column_attribute_q' =
                  CaptureAll(column_header_was_clicked, clicked_column_attribute_q, made)
    /\ rows' = SortedRows(n_items + 1, directories_first, sorters)
    /\ request' = NoRequest
    /\ changes' = <<>>
    /\ lastOp' = "file_added"
    /\ UNCHANGED <<columnVars, zoomVars, directories_first, sorters, sortState, sortMeta,
                   column_header_was_clicked>>

-----------------------------------------------------------------------------
(* The handlers of the column settings, which may remove a sort column.    *)

\* gtk_column_view_sorter_remove_column: the column is no sort column any more
gtk_column_view_sorter_remove_column(srt, column) ==
    SelectSeq(srt, LAMBDA x : x.column # column)

\* the columns the hiding loop removes from the view, in the order it removes
\* them
RECURSIVE HiddenColumns(_, _, _)
HiddenColumns(cols, i, targets) ==
    IF i >= Len(cols) THEN <<>>
    ELSE IF cols[i + 1] \notin Range(targets)
         THEN <<cols[i + 1]>>
                 \o HiddenColumns(gtk_column_view_remove_column(cols, cols[i + 1]), i + 1,
                                  targets)
         ELSE HiddenColumns(cols, i + 1, targets)

\* what gtk_column_view_remove_column does to the sorter: a column the view is
\* sorted by leaves the column view sorter, which emits "changed"
RemoveSortColumn(S, column, cols, n, dirs_first, comparisons) ==
    IF gtk_column_view_sorter_remove_column(S.sorters, column) # S.sorters
    THEN SorterChangedByView(S, gtk_column_view_sorter_remove_column(S.sorters, column),
                             cols, n, dirs_first, comparisons)
    ELSE S

RECURSIVE RemoveSortColumns(_, _, _, _, _, _)
RemoveSortColumns(S, hidden, cols, n, dirs_first, comparisons) ==
    IF hidden = <<>> THEN S
    ELSE RemoveSortColumns(RemoveSortColumn(S, Head(hidden), cols, n, dirs_first,
                                            comparisons),
                           Tail(hidden), cols, n, dirs_first, comparisons)

\* apply_columns_settings on the view, with the arguments recorded; loading
\* tells that real_begin_loading called it, which clears
\* clicked_column_attribute_q afterwards
ApplyColumnsSettings(dir, column_order, visible_columns, loading) ==
    \E comparisons \in ComparisonOrders(n_items) :
        LET hidden == HiddenColumns(attached, 0,
                                    view_columns(dir, column_order, visible_columns))
            R == RemoveSortColumns(SortFields, hidden, attached, n_items,
                                   directories_first, comparisons)
        IN  /\ attached' = apply_columns_settings(attached, dir, column_order,
                                                  visible_columns)
            /\ applied' = [called |-> TRUE, order |-> column_order,
                           visible |-> visible_columns]
            /\ SetSortFields(IF loading THEN [R EXCEPT !.q = ""] ELSE R, directories_first)
            /\ request' = IF R.request.called THEN R.request ELSE request
            /\ UNCHANGED n_items

\* update_columns_settings_from_metadata_and_preferences, with the
\* preferences it reads
UpdateColumnsSettings(pVisible, pOrder, loading) ==
    ApplyColumnsSettings(directory,
                         get_column_order(directory, metaOrder, pOrder),
                         get_visible_columns(directory, metaVisible, pVisible),
                         loading)

\* real_begin_loading
BeginLoading ==
    /\ UpdateColumnsSettings(prefVisible, prefOrder, TRUE)
    /\ lastOp' = "begin_loading"
    /\ UNCHANGED <<directory, metaVisible, metaOrder, prefVisible, prefOrder, chooser>>
    /\ UNCHANGED zoomVars

\* the default-visible-columns preference changes and its "changed" handler runs
PrefVisibleChanged ==
    \E v \in PrefLists :
        /\ v # prefVisible
        /\ prefVisible' = v
        /\ UpdateColumnsSettings(v, prefOrder, FALSE)
        /\ lastOp' = "pref_changed"
        /\ UNCHANGED <<directory, metaVisible, metaOrder, prefOrder, chooser>>
        /\ UNCHANGED zoomVars

\* the default-column-order preference changes and its "changed" handler runs
PrefOrderChanged ==
    \E o \in PrefLists :
        /\ o # prefOrder
        /\ prefOrder' = o
        /\ UpdateColumnsSettings(prefVisible, o, FALSE)
        /\ lastOp' = "pref_changed"
        /\ UNCHANGED <<directory, metaVisible, metaOrder, prefVisible, chooser>>
        /\ UNCHANGED zoomVars

\* action_visible_columns when there is no column editor yet:
\* create_column_editor and column_chooser_set_from_settings
ActionVisibleColumns ==
    /\ ~chooser.exists
    /\ chooser' = [exists |-> TRUE,
                   visible |-> get_visible_columns(directory, metaVisible, prefVisible),
                   order |-> get_column_order(directory, metaOrder, prefOrder)]
    /\ lastOp' = "visible_columns"
    /\ UNCHANGED <<directory, attached, metaVisible, metaOrder, prefVisible, prefOrder,
                   applied>>
    /\ UNCHANGED <<sortVars, zoomVars>>

\* the user edits the column chooser, which emits "changed":
\* column_chooser_changed_callback
ColumnChooserChanged ==
    \E c \in ChooserSettings :
        /\ chooser.exists
        /\ chooser' = [exists |-> TRUE, visible |-> c.visible, order |-> c.order]
        /\ metaVisible' = chooser'.visible
        /\ metaOrder' = chooser'.order
        /\ ApplyColumnsSettings(directory, chooser'.order, chooser'.visible, FALSE)
        /\ lastOp' = "chooser_changed"
        /\ UNCHANGED <<directory, prefVisible, prefOrder>>
        /\ UNCHANGED zoomVars

\* the column chooser emits "use-default": column_chooser_use_default_callback
ColumnChooserUseDefault ==
    /\ chooser.exists
    /\ metaOrder' = <<>>
    /\ metaVisible' = <<>>
    /\ LET default_columns == get_default_visible_columns(directory, prefVisible)
           default_order == get_default_column_order(directory, prefOrder)
       IN  /\ ApplyColumnsSettings(directory, default_order, default_columns, FALSE)
           /\ chooser' = [exists |-> TRUE, visible |-> default_columns,
                          order |-> default_order]
    /\ lastOp' = "use_default"
    /\ UNCHANGED <<directory, prefVisible, prefOrder>>
    /\ UNCHANGED zoomVars

-----------------------------------------------------------------------------
(* The zoom level.                                                         *)

NAUTILUS_LIST_ZOOM_LEVEL_SMALL == 0

NAUTILUS_LIST_ZOOM_LEVEL_MEDIUM == 1

NAUTILUS_LIST_ZOOM_LEVEL_LARGE == 2

ZoomLevels == NAUTILUS_LIST_ZOOM_LEVEL_SMALL..NAUTILUS_LIST_ZOOM_LEVEL_LARGE

\* the initial state of the "zoom-to-level" entry of list_view_entries
InitialZoomState == 1

\* get_default_zoom_level: the preference, clamped
get_default_zoom_level(pref) ==
    IF pref < NAUTILUS_LIST_ZOOM_LEVEL_SMALL THEN NAUTILUS_LIST_ZOOM_LEVEL_SMALL
    ELSE IF pref > NAUTILUS_LIST_ZOOM_LEVEL_LARGE THEN NAUTILUS_LIST_ZOOM_LEVEL_LARGE
    ELSE pref

\* set_zoom_level: the field of the view
set_zoom_level(new_level) == new_level

\* action_zoom_to_level that leaves the action's state alone
action_zoom_to_level_keeps_state(Z, level) ==
    [Z EXCEPT !.zoom_level = set_zoom_level(level),
              !.pref = level,
              !.writes = IF Z.pref # level THEN Z.writes + 1 ELSE Z.writes]

\* action_zoom_to_level that writes the preference without reading it
action_zoom_to_level_always_writes(Z, level) ==
    [Z EXCEPT !.zoom_level = set_zoom_level(level),
              !.state = level,
              !.pref = level,
              !.writes = Z.writes + 1]

\* action_zoom_to_level.  Z holds the zoom level of the view, the state of the
\* action, the preference and the count of its writes.
action_zoom_to_level(Z, level) ==
    [Z EXCEPT !.zoom_level = set_zoom_level(level),
              !.state = level,
              !.pref = level,
              !.writes = IF Z.pref # level THEN Z.writes + 1 ELSE Z.writes]

ZoomFields ==
    [zoom_level |-> zoom_level, state |-> zoomState, pref |-> prefZoom,
     writes |-> zoomPrefWrites]

SetZoomFields(Z) ==
    /\ Z.writes <= MaxZoomPrefWrites
    /\ zoom_level' = Z.zoom_level
    /\ zoomState' = Z.state
    /\ prefZoom' = Z.pref
    /\ zoomPrefWrites' = Z.writes

\* real_bump_zoom_level
BumpZoomLevel ==
    \E zoom_increment \in {-1, 1} :
        LET new_level == zoom_level + zoom_increment
        IN  /\ SetZoomFields(IF /\ new_level >= NAUTILUS_LIST_ZOOM_LEVEL_SMALL
                                /\ new_level <= NAUTILUS_LIST_ZOOM_LEVEL_LARGE
                             THEN action_zoom_to_level(ZoomFields, new_level)
                             ELSE ZoomFields)
            /\ lastOp' = "bump_zoom_level"
            /\ UNCHANGED <<columnVars, sortVars>>

\* real_restore_standard_zoom_level
RestoreStandardZoomLevel ==
    /\ SetZoomFields(action_zoom_to_level(ZoomFields, NAUTILUS_LIST_ZOOM_LEVEL_MEDIUM))
    /\ lastOp' = "restore_standard_zoom_level"
    /\ UNCHANGED <<columnVars, sortVars>>

\* the state of the "zoom-to-level" action is changed to a level
ZoomToLevel ==
    \E level \in ZoomLevels :
        /\ SetZoomFields(action_zoom_to_level(ZoomFields, level))
        /\ lastOp' = "zoom_to_level"
        /\ UNCHANGED <<columnVars, sortVars>>

\* the default-zoom-level preference is changed from outside the view, which
\* does not listen to it
ZoomPreferenceChanged ==
    \E level \in ZoomLevels :
        /\ level # prefZoom
        /\ prefZoom' = level
        /\ lastOp' = "zoom_preference_changed"
        /\ UNCHANGED <<columnVars, sortVars, zoom_level, zoomState, zoomPrefWrites>>

-----------------------------------------------------------------------------
(* The specifications.                                                     *)

\* nautilus_list_view_init, for the column settings: no column is attached
\* before the first load
InitColumns(dirs, prefs) ==
    /\ directory \in dirs
    /\ attached = <<>>
    /\ metaVisible = <<>>
    /\ metaOrder = <<>>
    /\ prefVisible \in prefs
    /\ prefOrder \in prefs
    /\ chooser = [exists |-> FALSE, visible |-> <<>>, order |-> <<>>]
    /\ applied = [called |-> FALSE, order |-> <<>>, visible |-> <<>>]

\* nautilus_list_view_init, for the sorting: an empty model, no sort column,
\* the "sort" entry of list_view_entries in its initial state
InitSort(flags) ==
    /\ n_items = 0
    /\ rows = <<>>
    /\ directories_first \in flags
    /\ sorters = <<>>
    /\ sortState = [name |-> "invalid", reversed |-> FALSE]
    /\ sortMeta = [name |-> "", reversed |-> FALSE]
    /\ column_header_was_clicked = FALSE
    /\ clicked_column_attribute_q = ""
    /\ calls = <<>>
    /\ request = NoRequest
    /\ changes = <<>>

\* nautilus_list_view_init, for the zoom level: the default zoom level is read
\* and the "zoom-to-level" action takes it
InitZoom(prefs) ==
    \E pref \in prefs :
        LET Z == action_zoom_to_level([zoom_level |-> get_default_zoom_level(pref),
                                       state |-> InitialZoomState, pref |-> pref,
                                       writes |-> 0],
                                      get_default_zoom_level(pref))
        IN  /\ zoom_level = Z.zoom_level
            /\ zoomState = Z.state
            /\ prefZoom = Z.pref
            /\ zoomPrefWrites = Z.writes

\* a folder whose files cannot be starred
PlainFolder ==
    [in_trash |-> FALSE, in_recent |-> FALSE, can_star |-> FALSE, is_starred_dir |-> FALSE]

\* the column settings, in any directory; no sort column is ever set here, so
\* removing a column from the view never changes the sorter
InitColumnSettings ==
    /\ InitColumns(Directories, PrefLists)
    /\ InitSort({TRUE})
    /\ InitZoom({NAUTILUS_LIST_ZOOM_LEVEL_MEDIUM})
    /\ lastOp = "init"

NextColumns ==
    \/ BeginLoading
    \/ PrefVisibleChanged
    \/ PrefOrderChanged
    \/ ActionVisibleColumns
    \/ ColumnChooserChanged
    \/ ColumnChooserUseDefault

SpecColumns == InitColumnSettings /\ [][NextColumns]_vars

\* sorting in a plain folder that shows the name and size columns, which the
\* first load attaches and no later load removes
Init ==
    /\ InitColumns({PlainFolder}, {<<"size">>})
    /\ InitSort(BOOLEAN)
    /\ InitZoom({NAUTILUS_LIST_ZOOM_LEVEL_MEDIUM})
    /\ lastOp = "init"

Next ==
    \/ BeginLoading
    \/ FileAdded
    \/ HeaderClick
    \/ SortAction
    \/ SortDirectoriesFirstChanged

Spec == Init /\ [][Next]_vars

\* header clicks in a plain folder whose default-visible-columns preference
\* changes, which may hide a column the view is sorted by
InitHiding ==
    /\ InitColumns({PlainFolder}, {<<"size">>})
    /\ InitSort({TRUE})
    /\ InitZoom({NAUTILUS_LIST_ZOOM_LEVEL_MEDIUM})
    /\ lastOp = "init"

NextHiding ==
    \/ BeginLoading
    \/ PrefVisibleChanged
    \/ FileAdded
    \/ HeaderClick

SpecHiding == InitHiding /\ [][NextHiding]_vars

\* zooming, with any default zoom level stored
InitZooming ==
    /\ InitColumns({PlainFolder}, {<<"size">>})
    /\ InitSort({TRUE})
    /\ InitZoom(ZoomLevels)
    /\ lastOp = "init"

NextZoom ==
    \/ BumpZoomLevel
    \/ RestoreStandardZoomLevel
    \/ ZoomToLevel
    \/ ZoomPreferenceChanged

SpecZoom == InitZooming /\ [][NextZoom]_vars

-----------------------------------------------------------------------------
(* Properties of the column settings.                                      *)

\* the target set of the last apply_columns_settings: the columns of the file
\* that have a view column and whose name, in lower case, is to be visible
TargetSet ==
    {c \in Range(nautilus_get_columns_for_file(directory)) \cap AllViewColumns :
        AsciiStrdown(c) \in visible_columns_hash(directory, applied.visible)}

\* the target columns in the order of the file's columns sorted by the
\* column_order argument
TargetsInOrder ==
    SelectSeq(nautilus_sort_columns(nautilus_get_columns_for_file(directory), applied.order),
              LAMBDA c : c \in TargetSet)

\* C1: after apply_columns_settings returns, no column outside the computed
\* target set remains attached to the column view.
C1_NoUnlistedColumnAttached ==
    applied.called => Range(attached) \subseteq TargetSet

\* C2: after apply_columns_settings returns, the target columns occupy
\* positions 0..k-1 of the column view, in the order of the file's columns
\* sorted by column_order.
C2_TargetsFirstInOrder ==
    applied.called =>
        /\ Len(attached) >= Len(TargetsInOrder)
        /\ SubSeq(attached, 1, Len(TargetsInOrder)) = TargetsInOrder

\* C2 witness: a chooser change put three targets in front, not in registry
\* order, of a view that had columns attached before.
C2_Witness ==
    /\ lastOp = "chooser_changed"
    /\ Len(TargetsInOrder) >= 3
    /\ TargetsInOrder[1] # "name"
    /\ SubSeq(attached, 1, Len(TargetsInOrder)) = TargetsInOrder

\* a list names the starred column, in any letter case
ListsStarred(visible_columns) ==
    \E i \in 1..Len(visible_columns) : AsciiStrdown(visible_columns[i]) = "starred"

\* C3: the target set of visible columns always contains "name", and contains
\* "starred" exactly when the location supports starring, is the starred
\* directory, or visible_columns lists it; the name column is attached after
\* any call.
C3_NameAlwaysStarredConditionally ==
    applied.called =>
        LET hash == visible_columns_hash(directory, applied.visible)
        IN  /\ "name" \in hash
            /\ "starred" \in hash <=>
                  \/ directory.can_star
                  \/ directory.is_starred_dir
                  \/ ListsStarred(applied.visible)
            /\ "name" \in Range(attached)

\* C3 witness: visible_columns does not list "name" and lists the starred
\* column where starring is not supported; both columns are attached.
C3_Witness ==
    /\ applied.called
    /\ "name" \notin Range(applied.visible)
    /\ ~directory.can_star /\ ~directory.is_starred_dir
    /\ ListsStarred(applied.visible)
    /\ {"name", "starred"} \subseteq Range(attached)

\* what the claim says get_visible_columns and get_column_order return
ExpectedSetting(dir, meta, pref) ==
    IF meta # <<>> THEN meta
    ELSE IF dir.in_trash THEN <<"name", "size", "trashed_on">>
    ELSE IF dir.in_recent THEN <<"name", "size", "recency">>
    ELSE pref

\* C7: get_visible_columns and get_column_order return the directory's own
\* metadata list when it is non-empty, otherwise the trash defaults in the
\* trash, otherwise the recent defaults in recent, otherwise the global
\* preference; the lists a load or a preference change applies are these.
C7_SettingsFallback ==
    /\ \A d \in DirectoryFlags :
          /\ get_visible_columns(d, metaVisible, prefVisible)
                = ExpectedSetting(d, metaVisible, prefVisible)
          /\ get_column_order(d, metaOrder, prefOrder)
                = ExpectedSetting(d, metaOrder, prefOrder)
    /\ lastOp \in {"begin_loading", "pref_changed"} =>
          /\ applied.visible = ExpectedSetting(directory, metaVisible, prefVisible)
          /\ applied.order = ExpectedSetting(directory, metaOrder, prefOrder)
    /\ lastOp = "visible_columns" =>
          /\ chooser.visible = ExpectedSetting(directory, metaVisible, prefVisible)
          /\ chooser.order = ExpectedSetting(directory, metaOrder, prefOrder)

\* C7 witness: a load in the trash with no metadata stored applied the trash
\* defaults, not the global preference.
C7_Witness ==
    /\ lastOp = "begin_loading"
    /\ directory.in_trash
    /\ metaVisible = <<>> /\ metaOrder = <<>>
    /\ prefVisible # <<>>
    /\ applied.visible = <<"name", "size", "trashed_on">>
    /\ applied.order = <<"name", "size", "trashed_on">>

\* C9: when the column chooser emits "changed", both metadata keys hold the
\* chooser's settings, the same two lists are applied to the view, and the
\* attached columns are the columns the stored metadata asks for.
C9_ChooserChangeAgrees ==
    lastOp = "chooser_changed" =>
        /\ metaVisible = chooser.visible
        /\ metaOrder = chooser.order
        /\ applied.visible = chooser.visible
        /\ applied.order = chooser.order
        /\ attached = view_columns(directory, metaOrder, metaVisible)

-----------------------------------------------------------------------------
(* Properties of the sorting.                                              *)

Items == 1..n_items

\* C4: with directories_first enabled the composite sorter orders a directory
\* before a non-directory whatever the sort column and its direction; the
\* sort column decides for two directories, for two non-directories and when
\* directories_first is disabled.  The rows of the model are in that order.
C4_DirectoriesFirst ==
    /\ \A a, b \in Items :
          IF directories_first /\ IsDirectory(a) # IsDirectory(b)
          THEN MultiSorterCompare(a, b, directories_first, sorters)
                  = (IF IsDirectory(a) THEN GTK_ORDERING_SMALLER ELSE GTK_ORDERING_LARGER)
          ELSE MultiSorterCompare(a, b, directories_first, sorters)
                  = ColumnViewSorterCompare(a, b, sorters)
    /\ directories_first =>
          \A i, j \in 1..Len(rows) : i < j => ~(~IsDirectory(rows[i]) /\ IsDirectory(rows[j]))

\* C4 witness: sorted by name ascending, the directory 2 is first although
\* file 1 has the smaller name.
C4_Witness ==
    /\ directories_first
    /\ sorters = <<[column |-> "name", inverted |-> FALSE]>>
    /\ rows = <<2, 1, 3>>

\* the order the primary sort column gives two files when ascending
Ascending(a, b) ==
    nautilus_file_compare_for_sort_by_attribute_q(a, b, Head(sorters).column, FALSE, FALSE)

C8_SortMetadataFollowsAction ==
    request.called /\ request.differs /\ request.value.name # "unknown" =>
        /\ sortMeta = request.value
        /\ sortState = request.value

\* C8 witness: the menu asked for size, reversed, and both hold it.
C8_Witness ==
    /\ lastOp = "sort_action"
    /\ request.called /\ request.differs
    /\ request.value = [name |-> "size", reversed |-> TRUE]
    /\ sortMeta = [name |-> "size", reversed |-> TRUE]
    /\ sortState = [name |-> "size", reversed |-> TRUE]

-----------------------------------------------------------------------------
(* Properties of the header-click hack.                                    *)

\* the sort action handled a value that differs from its state and names a
\* sort order, so it came to the test of column_header_was_clicked
ReachedSortByColumnTest ==
    request.called /\ request.differs /\ request.value.name # "unknown"

\* C11: once the handling of a sorter "changed" event has run to completion,
\* column_header_was_clicked is FALSE again, whatever the size of the model
\* and whether or not the comparator was called; so a later sort action from
\* the menu always asks the column view to sort.
C11_FlagResetAfterSorterChanged ==
    /\ lastOp = "header_click" => ~column_header_was_clicked
    /\ lastOp = "sort_action" /\ ReachedSortByColumnTest =>
           request.sort_by_column # <<>>

\* C12: when a header click is reported (the flag is set and an attribute was
\* captured), on_after_sorter_changed requests the captured attribute with the
\* current direction inverted if the attribute is the current sort action's
\* name, and with reversed FALSE otherwise; it requests nothing when no
\* attribute was captured, nor when the flag is unset, as it is after the
\* "changed" of a programmatic sort.
C12_RequestAfterHeaderClick ==
    [][/\ lastOp' = "header_click" =>
            IF clicked_column_attribute_q' = ""
            THEN ~request'.called
            ELSE /\ request'.called
                 /\ request'.value.name = clicked_column_attribute_q'
                 /\ request'.value.reversed =
                        IF clicked_column_attribute_q' = sortState.name
                        THEN ~sortState.reversed
                        ELSE FALSE
       /\ lastOp' = "sort_action" /\ request'.sort_by_column # <<>> =>
            ~request'.nested]_vars

\* C12 witness: a click on the header of the column the view was sorted by,
\* ascending, requested the same attribute reversed.
C12_Witness ==
    /\ lastOp = "header_click"
    /\ request.called
    /\ request.value.name = clicked_column_attribute_q
    /\ request.value.reversed
    /\ sortState = request.value

\* the view column of a sort target, "" when it is not attached
RequestedColumn ==
    IF request.value.name \in Range(attached) THEN request.value.name ELSE ""

C14_ProgrammaticSortIsNoClick ==
    [][lastOp' = "sort_action" /\ request'.sort_by_column # <<>> =>
            /\ ~request'.clicked_in_sort
            /\ ~column_header_was_clicked'
            /\ clicked_column_attribute_q' = clicked_column_attribute_q
            /\ ~request'.nested
            /\ sortState' = request'.value]_vars

\* C14 witness: a sort action from the menu sorted a model of several files,
\* the comparator ran, and no attribute is recorded as clicked.
C14_Witness ==
    /\ lastOp = "sort_action"
    /\ Len(request.sort_by_column) = 2
    /\ n_items >= 2
    /\ calls # <<>>
    /\ clicked_column_attribute_q = ""
    /\ ~column_header_was_clicked

C16_SameValueChangesNothing ==
    [][lastOp' = "sort_action" /\ request'.value = sortState =>
            /\ UNCHANGED <<sortState, sortMeta, column_header_was_clicked,
                           clicked_column_attribute_q, sorters, rows>>
            /\ calls' = <<>>
            /\ request'.sort_by_column = <<>>
            /\ ~request'.meta_written]_vars

\* C16 witness: the menu asked for the order by size that the action already
\* held, in a view of several files whose metadata holds that order too.
C16_Witness ==
    /\ lastOp = "sort_action"
    /\ request.called
    /\ ~request.differs
    /\ request.value.name = "size"
    /\ sortState = request.value
    /\ n_items >= 2
    /\ calls = <<>>
    /\ request.sort_by_column = <<>>

-----------------------------------------------------------------------------
(* Properties of the zoom level.                                           *)

\* C10: the state of the "zoom-to-level" action equals the view's zoom_level
\* after initialisation and after every zoom-to-level activation, zoom bump
\* and restore-standard-zoom.
C10_ZoomStateIsZoomLevel ==
    zoomState = zoom_level

\* C10 witness: a bump took the view to the large zoom level and the action's
\* state followed.
C10_Witness ==
    /\ lastOp = "bump_zoom_level"
    /\ zoom_level = NAUTILUS_LIST_ZOOM_LEVEL_LARGE
    /\ zoomState = NAUTILUS_LIST_ZOOM_LEVEL_LARGE

\* C17: after every zoom-to-level action, those of the initialisation, of a
\* zoom bump and of restore-standard-zoom included, the default-zoom-level
\* preference equals the view's zoom_level, and the action writes the
\* preference exactly when its value differs from the new level.
C17_ZoomPreferenceFollowsZoomLevel ==
    /\ [](lastOp = "init" => prefZoom = zoom_level /\ zoomPrefWrites = 0)
    /\ [][\/ lastOp' \in {"zoom_to_level", "restore_standard_zoom_level"}
          \/ lastOp' = "bump_zoom_level" /\ zoom_level' # zoom_level
          => /\ prefZoom' = zoom_level'
             /\ zoomPrefWrites' = IF prefZoom # zoom_level'
                                  THEN zoomPrefWrites + 1
                                  ELSE zoomPrefWrites]_vars

\* C17 witness: the preference was changed from outside to the small level
\* and a restore of the standard zoom level wrote it back to medium.
C17_Witness ==
    /\ lastOp = "restore_standard_zoom_level"
    /\ zoom_level = NAUTILUS_LIST_ZOOM_LEVEL_MEDIUM
    /\ prefZoom = NAUTILUS_LIST_ZOOM_LEVEL_MEDIUM
    /\ zoomPrefWrites >= 1

=============================================================================
